---- MODULE Spec2Model ----
(***************************************************************************)
(* Swiper: the command-line entry point (index.ts), the browser manager,   *)
(* the session orchestrator Swiper.run() and the decision policy, as one   *)
(* state machine.  Every await of the code is a point where another task   *)
(* of the event loop (a signal handler, a pending browser call) may run,   *)
(* so each action is the synchronous stretch of code between two awaits.   *)
(***************************************************************************)
EXTENDS Integers, FiniteSets, Sequences, TLC

\* ---- bounds of the model ------------------------------------------------
MaxSwipes == 3      \* maxSwipesPerSession is drawn from 0 .. MaxSwipes
MaxErrors == 2      \* failed swipe calls explored per session
MaxSignals == 2     \* SIGINT / SIGTERM deliveries explored per process
MaxVisible == 4     \* OkCupid popup elements visible at once on a page
MaxSelector == 3    \* the first MaxSelector popup selectors of Tinder may match
MaxDelay == 3       \* swipeDelay.min and .max are drawn from 0 .. MaxDelay
MaxCalls == 2       \* calls made on one RateLimiter

\* ---- program constants --------------------------------------------------
maxAttempts == 60

Sites == {"tinder", "okcupid", "other"}
\* Math.random() in tenths: r / 10 ranges over [0, 1)
Draws == 0 .. 9
\* likeRatio in tenths: 0.0, 0.5, 0.9 (tinder default) and 1.0
LikeRatios == {0, 5, 9, 10}

VARIABLES
  site,                 \* options.site, lower-cased
  siteEnabled,          \* getSiteConfig(siteName) returned a configuration
  likeRatio,            \* siteConfig.likeRatio, in tenths
  maxSwipesPerSession,  \* siteConfig.maxSwipesPerSession
  mainPc,               \* position of the commander action of index.ts
  runPc,                \* position of Swiper.run()
  context,              \* BrowserManager.context: "null", "open", "closed"
  page,                 \* the page of run(): "none", "open", "closed"
  handlers,             \* process.on("SIGINT"/"SIGTERM", shutdown) was executed
  sd,                   \* the shutdown() invocations, one per handled signal
  exitCode,             \* "none" while running, "0", "1", "signal" when killed
  stats,                \* Swiper.stats
  attempts,             \* local attempts of the login-wait loop (0 outside its block)
  decision,             \* decision.action of the current iteration
  runError,             \* the error run() is throwing, "none" otherwise
  runResult,            \* "pending", "returned", "thrown"
  loggedIn,             \* local loggedIn of run()
  cardsAvailable,       \* local cardsAvailable of run(): "unset", "true", "false"
  loopExit,             \* how the main loop ended: "none" while it has not,
                        \* "noMore" / "failedNoMore" after hasMoreProfiles
                        \* returned false, "cap" after the while condition failed
  storageSaved,         \* storage-state.json was written by this process
  hasMoreCalls,         \* number of completed hasMoreProfiles calls
  swipeCalls,           \* number of completed swipe calls
  sigOpen,              \* a signal arrived while the browser was open
  sdClosedInRun,        \* shutdown() closed the context while run() was in progress
  conf,                 \* the Config object and what index.ts derives from it
  call,                 \* one call of an adapter method on a given page
  rate                  \* a RateLimiter: its config and its last call

vars == <<site, siteEnabled, likeRatio, maxSwipesPerSession, mainPc, runPc,
          context, page, handlers, sd, exitCode, stats, attempts, decision,
          runError, runResult, loggedIn, cardsAvailable, loopExit, storageSaved, hasMoreCalls,
          swipeCalls, sigOpen, sdClosedInRun, conf, call, rate>>

\* what the orchestrator reads and never writes
cfgVars == <<site, siteEnabled, likeRatio, maxSwipesPerSession, conf, call,
             rate>>
\* the state of the process and of the session
orchVars == <<site, siteEnabled, likeRatio, maxSwipesPerSession, mainPc, runPc,
              context, page, handlers, sd, exitCode, stats, attempts, decision,
              runError, runResult, loggedIn, cardsAvailable, loopExit,
              storageSaved, hasMoreCalls, swipeCalls, sigOpen, sdClosedInRun>>
runVars == <<runPc, page, stats, attempts, decision, runError, runResult,
             loggedIn, cardsAvailable, loopExit, hasMoreCalls, swipeCalls>>
ghostVars == <<sigOpen, sdClosedInRun>>

ZeroStats == [totalSwipes |-> 0, likes |-> 0, dislikes |-> 0, errors |-> 0]

\* an object without any key, and the spread { ...a, ...b } of two objects
Empty == [k \in {} |-> 0]
Spread(a, b) ==
  [k \in DOMAIN a \cup DOMAIN b |-> IF k \in DOMAIN b THEN b[k] ELSE a[k]]
Has(o, k) == k \in DOMAIN o

\* before new Config(...) was evaluated / before any adapter method was called
ConfIdle == [pc |-> "idle"]
CallIdle == [method |-> "none"]
\* before new RateLimiter(...) was evaluated
RateIdle == [op |-> "none"]

\* the process before the commander action has run
OrchInit ==
  /\ mainPc = "start"
  /\ runPc = "idle"
  /\ context = "null"
  /\ page = "none"
  /\ handlers = FALSE
  /\ sd = [i \in 1 .. MaxSignals |-> "idle"]
  /\ exitCode = "none"
  /\ stats = ZeroStats
  /\ attempts = 0
  /\ decision = "none"
  /\ runError = "none"
  /\ runResult = "pending"
  /\ loggedIn = FALSE
  /\ cardsAvailable = "unset"
  /\ loopExit = "none"
  /\ storageSaved = FALSE
  /\ hasMoreCalls = 0
  /\ swipeCalls = 0
  /\ sigOpen = FALSE
  /\ sdClosedInRun = FALSE

Init ==
  /\ site \in Sites
  /\ siteEnabled \in BOOLEAN
  /\ likeRatio \in LikeRatios
  /\ maxSwipesPerSession \in 0 .. MaxSwipes
  /\ OrchInit
  /\ conf = ConfIdle
  /\ call = CallIdle
  /\ rate = RateIdle

\* ---- the page and the adapters, as the orchestrator sees them ------------

\* a call on the page can succeed only while page and context are open
PageAlive == context = "open" /\ page = "open"

\* BrowserContext.storageState() rejects on a closed context; saveStorageState
\* swallows the rejection
StorageStateOk(ctx) == ctx = "open"

\* navigate: page.goto is awaited outside any try in both adapters
NavigateOutcomes(s, alive) ==
  IF alive THEN {"ok", "throw"} ELSE {"throw"}

\* isLoggedIn: tinder catches everything and returns false; okcupid runs its
\* fallback count() inside the catch block, where a rejection propagates
IsLoggedInOutcomes(s, alive) ==
  IF s = "okcupid"
    THEN (IF alive THEN {"true", "false", "throw"} ELSE {"throw"})
    ELSE (IF alive THEN {"true", "false"} ELSE {"false"})

\* waitForCards: both adapters catch everything and return false
WaitForCardsOutcomes(s, alive) ==
  IF alive THEN {"true", "false"} ELSE {"false"}

\* dismissPopup: catches everything and returns false
DismissPopupOutcomes(s, alive) ==
  IF alive THEN {"true", "false"} ELSE {"false"}

\* hasMoreProfiles: on an internal error tinder returns false, okcupid true
HasMoreProfilesOutcomes(s, alive) ==
  IF alive THEN {"true", "false"}
  ELSE (IF s = "okcupid" THEN {"true"} ELSE {"false"})

\* a swipe whose page calls are not inside a try
SwipeOutcomes_Unguarded(s, alive) ==
  IF alive THEN {"true", "false"} ELSE {"throw"}

\* swipe: both adapters catch everything and return false
SwipeOutcomes(s, alive) ==
  IF alive THEN {"true", "false"} ELSE {"false"}

\* decideSwipe with its two branches swapped
decideSwipe_Swapped(r, ratio) == IF r < ratio THEN "dislike" ELSE "like"

\* RateLimiter.decideSwipe for the drawn value r
decideSwipe(r, ratio) == IF r < ratio THEN "like" ELSE "dislike"


\* ---- index.ts: the commander action ------------------------------------

Running == exitCode = "none"

\* process.exit(code)
Exit(code) == exitCode' = code /\ mainPc' = "exited"

\* lines 23-62: logger, Config, getSiteConfig, new BrowserManager, initialize()
\* up to the launch of the persistent context
MainStart ==
  /\ Running /\ mainPc = "start"
  /\ IF ~siteEnabled
       THEN Exit("1")
       ELSE \E profileOk \in BOOLEAN :
              IF profileOk THEN mainPc' = "launch" /\ exitCode' = exitCode
                           ELSE Exit("1")
  /\ UNCHANGED <<cfgVars, runVars, context, handlers, sd, storageSaved, ghostVars>>

\* BrowserManager.initialize: launchPersistentContext resolves or rejects
MainLaunch ==
  /\ Running /\ mainPc = "launch"
  /\ \E ok \in BOOLEAN :
       IF ok THEN context' = "open" /\ mainPc' = "initScript" /\ exitCode' = exitCode
             ELSE Exit("1") /\ context' = context
  /\ UNCHANGED <<cfgVars, runVars, handlers, sd, storageSaved, ghostVars>>

\* the while condition with the cap included: one swipe too many
LoopCondition_Inclusive(total, max) == total <= max

\* the while condition of the main loop
LoopCondition(total, max) == total < max

\* the position run() reaches at the top of its while loop

LoopHeadPc(total) ==
  IF LoopCondition(total, maxSwipesPerSession)
    THEN (IF site = "tinder" THEN "dismissPopup" ELSE "hasMore")
    ELSE "pageClose"

LoopHeadExit(total) ==
  IF LoopCondition(total, maxSwipesPerSession) THEN loopExit ELSE "cap"

\* BrowserManager.close() up to its first await: with a context it calls
\* saveStorageState, which awaits storageState(); without one it only logs
ClosePc(ctx) == IF ctx # "null" THEN "closeSave" ELSE "closeCtx"

\* addInitScript resolves; then the site switch, the signal handlers and the
\* call of swiper.run() up to context.newPage()
MainInitScript ==
  /\ Running /\ mainPc = "initScript"
  /\ \E ok \in BOOLEAN :
       IF ~ok
         THEN Exit("1") /\ UNCHANGED <<handlers, runPc>>
         ELSE IF site \in {"tinder", "okcupid"}
           THEN /\ handlers' = TRUE
                /\ mainPc' = "run"
                /\ runPc' = "newPage"
                /\ exitCode' = exitCode
           ELSE /\ mainPc' = ClosePc(context)
                /\ UNCHANGED <<handlers, runPc, exitCode>>
  /\ UNCHANGED <<cfgVars, loggedIn, cardsAvailable, page, stats, attempts, decision, runError, runResult,
                 loopExit, hasMoreCalls, swipeCalls, context, sd,
                 storageSaved, ghostVars>>

\* BrowserManager.close() called from the action: storageState() settles,
\* then context.close() is issued
MainCloseSave ==
  /\ Running /\ mainPc = "closeSave"
  /\ storageSaved' = (storageSaved \/ StorageStateOk(context))
  /\ context' = "closed"
  /\ mainPc' = "closeCtx"
  /\ UNCHANGED <<cfgVars, runVars, handlers, sd, exitCode, ghostVars>>

\* an unsupported site that ends like a completed session
CloseExitCode_AlwaysZero(res) == "0"

\* the process.exit that follows browserManager.close() in the action: 0 at
\* the end of the action after run() returned, 1 in the default branch of the
\* site switch
CloseExitCode(res) == IF res = "returned" THEN "0" ELSE "1"

\* context.close() settles: "Browser closed", then process.exit: 0 after a
\* session that returned, 1 for an unsupported site
MainCloseDone ==
  /\ Running /\ mainPc = "closeCtx"
  /\ Exit(CloseExitCode(runResult))
  /\ UNCHANGED <<cfgVars, runVars, context, handlers, sd, storageSaved, ghostVars>>

\* ---- signals and the shutdown handler ----------------------------------

\* SIGINT or SIGTERM is delivered: with the handlers registered shutdown()
\* runs up to the first await of BrowserManager.close(); without them the
\* default disposition ends the process at once
Signal ==
  /\ Running
  /\ \E i \in 1 .. MaxSignals :
       /\ sd[i] = "idle"
       /\ \A j \in 1 .. (i - 1) : sd[j] # "idle"
       /\ IF handlers
            THEN /\ sd' = [sd EXCEPT ![i] = ClosePc(context)]
                 /\ UNCHANGED <<exitCode, mainPc>>
            ELSE /\ exitCode' = "signal"
                 /\ UNCHANGED <<sd, mainPc>>
  /\ sigOpen' = (sigOpen \/ context = "open")
  /\ UNCHANGED <<cfgVars, runVars, context, handlers, storageSaved, sdClosedInRun>>

\* shutdown(): storageState() of saveStorageState settles, then
\* context.close() is issued
SdSave(i) ==
  /\ Running /\ sd[i] = "closeSave"
  /\ storageSaved' = (storageSaved \/ StorageStateOk(context))
  /\ context' = "closed"
  /\ sd' = [sd EXCEPT ![i] = "closeCtx"]
  /\ sdClosedInRun' = (sdClosedInRun \/ (mainPc = "run" /\ runResult = "pending"))
  /\ UNCHANGED <<cfgVars, runVars, mainPc, handlers, exitCode, sigOpen>>

\* shutdown(): close() returned, process.exit(0)
SdExit(i) ==
  /\ Running /\ sd[i] = "closeCtx"
  /\ exitCode' = "0"
  /\ sd' = [sd EXCEPT ![i] = "done"]
  /\ UNCHANGED <<cfgVars, runVars, mainPc, context, handlers, storageSaved, ghostVars>>


\* ---- Swiper.run() --------------------------------------------------------

InRun == Running /\ mainPc = "run"

\* an error thrown inside the try block: the catch logs and rethrows, the
\* finally block starts with page.close()
Throw(err) == runError' = err /\ runPc' = "pageClose"

\* context.newPage() settles; a rejection leaves run() before its try block
\* and reaches the catch of the action, which exits with 1
RunNewPage ==
  /\ InRun /\ runPc = "newPage"
  /\ IF context = "open"
       THEN /\ page' = "open"
            /\ runPc' = "navigate"
            /\ UNCHANGED <<runError, runResult, exitCode, mainPc>>
       ELSE /\ runError' = "newPage"
            /\ runResult' = "thrown"
            /\ runPc' = "done"
            /\ Exit("1")
            /\ page' = page
  /\ UNCHANGED <<cfgVars, loggedIn, cardsAvailable, stats, attempts, decision, loopExit, hasMoreCalls,
                 swipeCalls, context, handlers, sd, storageSaved, ghostVars>>

\* siteModule.navigate(page) settles
RunNavigate ==
  /\ InRun /\ runPc = "navigate"
  /\ \E o \in NavigateOutcomes(site, PageAlive) :
       IF o = "ok" THEN runPc' = "isLoggedIn" /\ runError' = runError
                   ELSE Throw("adapter")
  /\ UNCHANGED <<cfgVars, loggedIn, cardsAvailable, page, stats, attempts, decision, runResult, loopExit,
                 hasMoreCalls, swipeCalls, mainPc, context, handlers, sd,
                 exitCode, storageSaved, ghostVars>>

\* the first isLoggedIn(page) settles
RunIsLoggedIn ==
  /\ InRun /\ runPc = "isLoggedIn"
  /\ \E o \in IsLoggedInOutcomes(site, PageAlive) :
       CASE o = "true"  -> /\ runPc' = "stabilize" /\ loggedIn' = TRUE
                           /\ UNCHANGED <<runError, attempts>>
         [] o = "false" -> /\ runPc' = "loginWait" /\ loggedIn' = FALSE
                           /\ attempts' = 0 /\ runError' = runError
         [] OTHER       -> Throw("adapter") /\ UNCHANGED <<attempts, loggedIn>>
  /\ UNCHANGED <<cfgVars, cardsAvailable, page, stats, decision, runResult, loopExit,
                 hasMoreCalls, swipeCalls, mainPc, context, handlers, sd,
                 exitCode, storageSaved, ghostVars>>

\* page.waitForTimeout(5000) of the login-wait loop settles
RunLoginWait ==
  /\ InRun /\ runPc = "loginWait"
  /\ IF PageAlive THEN runPc' = "loginPoll" /\ runError' = runError
                  ELSE Throw("page")
  /\ UNCHANGED <<cfgVars, loggedIn, cardsAvailable, page, stats, attempts, decision, runResult, loopExit,
                 hasMoreCalls, swipeCalls, mainPc, context, handlers, sd,
                 exitCode, storageSaved, ghostVars>>

\* the login-wait loop with one poll too many
LoginExhausted_OffByOne(a) == ~(a <= maxAttempts)

\* the while condition of the login-wait loop, negated
LoginExhausted(a) == ~(a < maxAttempts)

\* isLoggedIn(page) of the login-wait loop settles; attempts is local to the
\* block of the loop and is gone once the loop is left by its break
RunLoginPoll ==
  /\ InRun /\ runPc = "loginPoll"
  /\ \E o \in IsLoggedInOutcomes(site, PageAlive) :
       CASE o = "true"  -> /\ runPc' = "stabilize" /\ loggedIn' = TRUE
                           /\ attempts' = 0 /\ runError' = runError
         [] o = "false" -> /\ attempts' = attempts + 1
                           /\ loggedIn' = FALSE
                           /\ IF LoginExhausted(attempts + 1)
                                THEN Throw("login timeout")
                                ELSE runPc' = "loginWait" /\ runError' = runError
         [] OTHER       -> Throw("adapter") /\ UNCHANGED <<attempts, loggedIn>>
  /\ UNCHANGED <<cfgVars, cardsAvailable, page, stats, decision, runResult, loopExit,
                 hasMoreCalls, swipeCalls, mainPc, context, handlers, sd,
                 exitCode, storageSaved, ghostVars>>

\* the stabilization pause settles: page.waitForTimeout(3000) after a
\* detected login, page.waitForTimeout(2000) when already logged in
RunStabilize ==
  /\ InRun /\ runPc = "stabilize"
  /\ IF PageAlive THEN runPc' = "waitForCards" /\ runError' = runError
                  ELSE Throw("page")
  /\ UNCHANGED <<cfgVars, loggedIn, cardsAvailable, page, stats, attempts, decision, runResult, loopExit,
                 hasMoreCalls, swipeCalls, mainPc, context, handlers, sd,
                 exitCode, storageSaved, ghostVars>>

\* waitForCards(page) settles; with cards the while loop is entered
RunWaitForCards ==
  /\ InRun /\ runPc = "waitForCards"
  /\ \E o \in WaitForCardsOutcomes(site, PageAlive) :
       /\ cardsAvailable' = o
       /\ IF o = "true"
         THEN /\ runPc' = LoopHeadPc(stats.totalSwipes)
              /\ loopExit' = LoopHeadExit(stats.totalSwipes)
              /\ runError' = runError
         ELSE Throw("cards not found") /\ loopExit' = loopExit
  /\ UNCHANGED <<cfgVars, loggedIn, page, stats, attempts, decision, runResult,
                 hasMoreCalls, swipeCalls, mainPc, context, handlers, sd,
                 exitCode, storageSaved, ghostVars>>

\* TinderSite only: dismissPopup(page) settles, its result is not used
RunDismissPopup ==
  /\ InRun /\ runPc = "dismissPopup"
  /\ \E o \in DismissPopupOutcomes(site, PageAlive) : runPc' = "hasMore"
  /\ UNCHANGED <<cfgVars, loggedIn, cardsAvailable, page, stats, attempts, decision, runError, runResult,
                 loopExit, hasMoreCalls, swipeCalls, mainPc, context,
                 handlers, sd, exitCode, storageSaved, ghostVars>>

\* the result of hasMoreProfiles is not looked at
AfterHasMore_Ignored(hasMore) == "swipe"

\* where run() goes after the hasMoreProfiles check at the top of an iteration
AfterHasMore(hasMore) == IF hasMore = "true" THEN "swipe" ELSE "pageClose"

\* hasMoreProfiles(page) settles; if true decideSwipe() draws and swipe is called
RunHasMore ==
  /\ InRun /\ runPc = "hasMore"
  /\ hasMoreCalls' = hasMoreCalls + 1
  /\ \E o \in HasMoreProfilesOutcomes(site, PageAlive) :
       /\ runPc' = AfterHasMore(o)
       /\ loopExit' = IF o = "true" THEN loopExit ELSE "noMore"
       /\ IF AfterHasMore(o) = "swipe"
            THEN \E r \in Draws : decision' = decideSwipe(r, likeRatio)
            ELSE decision' = decision
  /\ UNCHANGED <<cfgVars, loggedIn, cardsAvailable, page, stats, attempts, runError, runResult,
                 swipeCalls, mainPc, context, handlers, sd,
                 exitCode, storageSaved, ghostVars>>

\* a failed swipe is counted as a swipe as well
SwipeStats_CountsFailure(s, action, success) ==
  IF success
    THEN [s EXCEPT !.totalSwipes = @ + 1,
                   !.likes = IF action = "like" THEN @ + 1 ELSE @,
                   !.dislikes = IF action = "like" THEN @ ELSE @ + 1]
    ELSE [s EXCEPT !.errors = @ + 1, !.totalSwipes = @ + 1]

\* the stats after a swipe call: lines 165-178 of run()
SwipeStats(s, action, success) ==
  IF success
    THEN [s EXCEPT !.totalSwipes = @ + 1,
                   !.likes = IF action = "like" THEN @ + 1 ELSE @,
                   !.dislikes = IF action = "like" THEN @ ELSE @ + 1]
    ELSE [s EXCEPT !.errors = @ + 1]

\* swipe(page, decision.action) settles; a rejection would reach the catch
\* of run()
RunSwipe ==
  /\ InRun /\ runPc = "swipe"
  /\ swipeCalls' = swipeCalls + 1
  /\ \E o \in SwipeOutcomes(site, PageAlive) :
       IF o = "throw"
         THEN Throw("adapter") /\ stats' = stats
         ELSE /\ o = "false" => stats.errors < MaxErrors
              /\ stats' = SwipeStats(stats, decision, o = "true")
              /\ runPc' = IF o = "true" THEN "delay" ELSE "recheck"
              /\ runError' = runError
  /\ UNCHANGED <<cfgVars, loggedIn, cardsAvailable, page, attempts, decision, runResult, loopExit,
                 hasMoreCalls, mainPc, context, handlers, sd,
                 exitCode, storageSaved, ghostVars>>

\* the re-check after a failed swipe never stops the loop
AfterFailedSwipe_AlwaysContinue(stillHasMore) == "delay"

\* where run() goes after the hasMoreProfiles check that follows a failed swipe
AfterFailedSwipe(stillHasMore) == IF stillHasMore = "true" THEN "delay" ELSE "pageClose"

\* hasMoreProfiles(page) after a failed swipe settles
RunRecheck ==
  /\ InRun /\ runPc = "recheck"
  /\ hasMoreCalls' = hasMoreCalls + 1
  /\ \E o \in HasMoreProfilesOutcomes(site, PageAlive) :
       /\ runPc' = AfterFailedSwipe(o)
       /\ loopExit' = IF o = "true" THEN loopExit ELSE "failedNoMore"
  /\ UNCHANGED <<cfgVars, loggedIn, cardsAvailable, page, stats, attempts, decision, runError, runResult,
                 swipeCalls, mainPc, context, handlers, sd,
                 exitCode, storageSaved, ghostVars>>

\* rateLimiter.delay() settles (a timer, independent of the page)
RunDelay ==
  /\ InRun /\ runPc = "delay"
  /\ runPc' = "readingDelay"
  /\ UNCHANGED <<cfgVars, loggedIn, cardsAvailable, page, stats, attempts, decision, runError, runResult,
                 loopExit, hasMoreCalls, swipeCalls, mainPc, context,
                 handlers, sd, exitCode, storageSaved, ghostVars>>

\* rateLimiter.readingDelay() settles; the while condition is tested again
RunReadingDelay ==
  /\ InRun /\ runPc = "readingDelay"
  /\ runPc' = LoopHeadPc(stats.totalSwipes)
  /\ loopExit' = LoopHeadExit(stats.totalSwipes)
  /\ UNCHANGED <<cfgVars, loggedIn, cardsAvailable, page, stats, attempts, decision, runError, runResult,
                 hasMoreCalls, swipeCalls, mainPc, context,
                 handlers, sd, exitCode, storageSaved, ghostVars>>

\* a finally block that does not close the page
PageAfterClose_Skipped(p) == p

\* the page after page.close() (a close of an already closed target is swallowed)
PageAfterClose(p) == "closed"

\* finally: page.close() settles, saveStorageState() is called
RunPageClose ==
  /\ InRun /\ runPc = "pageClose"
  /\ page' = PageAfterClose(page)
  /\ runPc' = "saveState"
  /\ UNCHANGED <<cfgVars, loggedIn, cardsAvailable, stats, attempts, decision, runError, runResult,
                 loopExit, hasMoreCalls, swipeCalls, mainPc, context,
                 handlers, sd, exitCode, storageSaved, ghostVars>>

\* finally: storageState() of saveStorageState settles and run() returns the
\* stats or rethrows; the action then calls browserManager.close() or, in
\* its catch, process.exit(1)
RunSaveState ==
  /\ InRun /\ runPc = "saveState"
  /\ storageSaved' = (storageSaved \/ StorageStateOk(context))
  /\ runPc' = "done"
  /\ IF runError = "none"
       THEN /\ runResult' = "returned"
            /\ mainPc' = ClosePc(context)
            /\ exitCode' = exitCode
       ELSE /\ runResult' = "thrown"
            /\ Exit("1")
  /\ UNCHANGED <<cfgVars, loggedIn, cardsAvailable, page, stats, attempts, decision, runError,
                 loopExit, hasMoreCalls, swipeCalls, context,
                 handlers, sd, ghostVars>>

\* ---- the specification ---------------------------------------------------

Next ==
  \/ MainStart
  \/ MainLaunch
  \/ MainInitScript
  \/ MainCloseSave
  \/ MainCloseDone
  \/ Signal
  \/ \E i \in 1 .. MaxSignals : SdSave(i)
  \/ \E i \in 1 .. MaxSignals : SdExit(i)
  \/ RunNewPage
  \/ RunNavigate
  \/ RunIsLoggedIn
  \/ RunLoginWait
  \/ RunLoginPoll
  \/ RunStabilize
  \/ RunWaitForCards
  \/ RunDismissPopup
  \/ RunHasMore
  \/ RunSwipe
  \/ RunRecheck
  \/ RunDelay
  \/ RunReadingDelay
  \/ RunPageClose
  \/ RunSaveState

Spec == Init /\ [][Next]_vars

TypeOK ==
  /\ stats.totalSwipes \in Nat /\ stats.errors \in 0 .. MaxErrors
  /\ exitCode \in {"none", "0", "1", "signal"}
  /\ context \in {"null", "open", "closed"}
  /\ page \in {"none", "open", "closed"}

\* ---- properties ----------------------------------------------------------

RunExited == runPc = "done"

C2_TotalWithinMax == stats.totalSwipes <= maxSwipesPerSession

\* a session that returned after swiping exactly the (positive) maximum
C2_Witness ==
  /\ runResult = "returned" /\ maxSwipesPerSession > 0
  /\ stats.totalSwipes = maxSwipesPerSession

\* C3 as stated: the decision-and-action cycles (completed swipe calls,
\* failed ones included) never exceed the configured maximum
C3_CyclesWithinMax == swipeCalls <= maxSwipesPerSession

\* C3 as amended: the successful cycles never exceed the configured maximum;
\* failed swipe calls come on top of them
C3_SuccessfulCyclesWithinMax ==
  /\ swipeCalls - stats.errors <= maxSwipesPerSession
  /\ swipeCalls <= maxSwipesPerSession + stats.errors

\* a session that returned after more cycles than the maximum
C3_Witness ==
  /\ runResult = "returned" /\ swipeCalls > maxSwipesPerSession
  /\ stats.errors > 0 /\ loopExit = "cap"

\* C4: totalSwipes = likes + dislikes, the counters are non-negative,
\* totalSwipes + errors is the number of completed swipe calls, and the stats
\* change only when a swipe call settles: a success adds one to totalSwipes
\* and to the counter of the decided action, a failure adds one to errors
C4_StatsAccounting ==
  /\ [](/\ stats.totalSwipes = stats.likes + stats.dislikes
        /\ stats.totalSwipes >= 0 /\ stats.likes >= 0
        /\ stats.dislikes >= 0 /\ stats.errors >= 0
        /\ stats.totalSwipes + stats.errors = swipeCalls)
  /\ [][stats' # stats =>
          /\ runPc = "swipe" /\ swipeCalls' = swipeCalls + 1
          /\ \/ /\ decision = "like"
                /\ stats' = [stats EXCEPT !.totalSwipes = @ + 1, !.likes = @ + 1]
             \/ /\ decision = "dislike"
                /\ stats' = [stats EXCEPT !.totalSwipes = @ + 1, !.dislikes = @ + 1]
             \/ stats' = [stats EXCEPT !.errors = @ + 1]]_vars
  /\ [][swipeCalls' # swipeCalls => stats' # stats]_vars

\* a like, a dislike and a failed swipe have all been counted
C4_Witness ==
  stats.likes > 0 /\ stats.dislikes > 0 /\ stats.errors > 0

\* C5: when the hasMoreProfiles call after a failed swipe settles, nothing is
\* thrown; on true the loop goes on (delay, readingDelay, next iteration), on
\* false it stops and run() returns normally
C5_FailedSwipeRecheck ==
  /\ [][(runPc = "recheck" /\ runPc' # "recheck") =>
          /\ runError' = "none"
          /\ \/ loopExit' = "none" /\ runPc' = "delay"
             \/ loopExit' = "failedNoMore" /\ runPc' = "pageClose"]_vars
  /\ [][(runPc = "readingDelay" /\ runPc' # "readingDelay"
          /\ stats.totalSwipes + stats.errors > 0
          /\ stats.totalSwipes < maxSwipesPerSession) =>
          runPc' \in {"dismissPopup", "hasMore"}]_vars
  /\ [](runPc \in {"recheck", "delay", "readingDelay"} => runError = "none")
  /\ [](runPc = "recheck" => stats.totalSwipes < maxSwipesPerSession)
  /\ []((loopExit = "failedNoMore" /\ RunExited) =>
          (runResult = "returned" /\ runError = "none"))

\* a first failed swipe was treated as transient, a second one ended the
\* session, and run() returned
C5_Witness ==
  /\ RunExited /\ runResult = "returned" /\ loopExit = "failedNoMore"
  /\ stats.errors = 2 /\ hasMoreCalls = 4 /\ swipeCalls = 2

\* hasMoreProfiles never returned false and no swipe failed
AlwaysMoreAlwaysSwiped ==
  loopExit \notin {"noMore", "failedNoMore"} /\ stats.errors = 0

\* C6: a session in which hasMoreProfiles was always true and swipe always
\* succeeded returns after exactly maxSwipesPerSession swipes with no error;
\* with likeRatio 1.0 all of them are likes
C6_FullSession ==
  (runResult = "returned" /\ AlwaysMoreAlwaysSwiped) =>
     /\ swipeCalls = maxSwipesPerSession
     /\ stats.totalSwipes = maxSwipesPerSession
     /\ stats.errors = 0
     /\ likeRatio = 10 =>
          (stats.likes = maxSwipesPerSession /\ stats.dislikes = 0)

\* the scenario of the specification: likeRatio 1.0, three swipes, all likes
C6_Witness ==
  /\ runResult = "returned" /\ AlwaysMoreAlwaysSwiped
  /\ likeRatio = 10 /\ maxSwipesPerSession = 3
  /\ stats = [totalSwipes |-> 3, likes |-> 3, dislikes |-> 0, errors |-> 0]

\* C7: when the first hasMoreProfiles check of the main loop returns false, no
\* swipe is issued, nothing is thrown and the stats stay all zero
C7_NoProfilesAtStart ==
  (loopExit = "noMore" /\ hasMoreCalls = 1) =>
     /\ swipeCalls = 0
     /\ stats = ZeroStats
     /\ runError = "none" /\ runResult # "thrown"
     /\ runPc \in {"pageClose", "saveState", "done"}

\* run() returned after a first hasMoreProfiles check that said false
C7_Witness ==
  /\ loopExit = "noMore" /\ hasMoreCalls = 1
  /\ runResult = "returned" /\ stats = ZeroStats

\* C8: the login-wait loop makes at most maxAttempts polls after the initial
\* check and throws the login timeout exactly when all of them said false;
\* waitForCards returning false throws cards-not-found; in both cases
\* hasMoreProfiles and swipe have not been called and the stats are zero
C8_SessionFatal ==
  /\ attempts <= maxAttempts
  /\ (attempts = maxAttempts) <=> (runError = "login timeout")
  /\ runError = "login timeout" => ~loggedIn
  /\ (cardsAvailable = "false") <=> (runError = "cards not found")
  /\ runError \in {"login timeout", "cards not found"} =>
       /\ hasMoreCalls = 0 /\ swipeCalls = 0 /\ stats = ZeroStats
       /\ runPc \in {"pageClose", "saveState", "done"}
       /\ RunExited => runResult = "thrown"

\* run() threw the login timeout after the initial check and sixty polls
C8_Witness ==
  /\ RunExited /\ runResult = "thrown" /\ runError = "login timeout"
  /\ attempts = 60 /\ page = "closed"

\* C9: once the process has exited after a signal that arrived while the
\* browser was open, the storage state was saved and the context closed
C9_SignalAlwaysGraceful ==
  (sigOpen /\ ~Running) => (storageSaved /\ context = "closed")

\* C10: the process does not exit with code 1 after the shutdown handler
\* closed the browser under a session in progress
C10_SignalExitsZero == sdClosedInRun => exitCode # "1"

\* no signal has been delivered to the process
NoSignal == sd[1] = "idle" /\ exitCode # "signal"

\* C11: without a signal the process exits with 0 only after run() returned
\* and the context was closed; it exits with 1 when getSiteConfig returned
\* null (no browser launched), when the site has no adapter (after the
\* launched browser was closed, before any handler or session), and when
\* run() throws
C11_ExitCodes ==
  /\ []((NoSignal /\ exitCode = "0") =>
          (runResult = "returned" /\ context = "closed"
             /\ mainPc = "exited" /\ site \in {"tinder", "okcupid"}))
  /\ []((NoSignal /\ ~siteEnabled /\ ~Running) =>
          (exitCode = "1" /\ context = "null"))
  /\ []((NoSignal /\ site = "other" /\ ~Running) => exitCode = "1")
  /\ [][(mainPc = "initScript" /\ site = "other"
           /\ mainPc' \notin {"initScript", "exited"}) =>
          (mainPc' = "closeSave" /\ runPc' = "idle" /\ ~handlers')]_vars
  /\ [][(mainPc = "closeCtx" /\ site = "other" /\ mainPc' = "exited") =>
          (exitCode' = "1" /\ context = "closed")]_vars
  /\ [](runResult = "thrown" => exitCode = "1")

\* an enabled site without adapter: the browser was launched and closed again
\* and the process exited with 1
C11_Witness ==
  /\ NoSignal /\ site = "other" /\ siteEnabled
  /\ exitCode = "1" /\ context = "closed" /\ storageSaved

\* ---- the configuration: new Config(path) and its use by index.ts --------

\* built-in defaults; likeRatio in tenths
DEFAULT_CONFIG ==
  [sites |->
     [tinder |-> [enabled |-> TRUE, likeRatio |-> 9,
                  swipeDelay |-> [min |-> 1000, max |-> 2000],
                  maxSwipesPerSession |-> 400],
      okcupid |-> [enabled |-> FALSE, likeRatio |-> 8,
                   swipeDelay |-> [min |-> 1500, max |-> 2500],
                   maxSwipesPerSession |-> 300]],
   browser |-> [headless |-> FALSE, profilePath |-> "./browser-profile"]]

\* a key that a JSON object may or may not give, with a value of V
Opt(k, V) == {Empty} \cup {[x \in {k} |-> v] : v \in V}

\* the site names a config file or --site may use; bumble has no default
FileSiteNames == {"tinder", "okcupid", "bumble"}

\* swipeDelay objects of a site section and of the global section: one field
\* or both, each with min <= max when both are given
SiteDelays == {[min |-> 3000], [max |-> 500], [min |-> 500, max |-> 3000]}
GlobalDelays == {[min |-> 700], [max |-> 2600], [min |-> 700, max |-> 2600]}

\* Partial<SiteConfig> sections of a config file; every likeRatio is in [0, 1]
SiteSections ==
  {Spread(Spread(e, l), Spread(d, m)) :
     e \in Opt("enabled", BOOLEAN), l \in Opt("likeRatio", {3}),
     d \in Opt("swipeDelay", SiteDelays),
     m \in Opt("maxSwipesPerSession", {50})}
GlobalSections ==
  {Spread(l, d) : l \in Opt("likeRatio", {6}),
                  d \in Opt("swipeDelay", GlobalDelays)}

\* the "sites" object of a file: an optional global section and at most one
\* site section
FileSites ==
  {Spread(g, st) :
     g \in Opt("global", GlobalSections),
     st \in {Empty} \cup
            {[x \in {n} |-> sec] : n \in FileSiteNames, sec \in SiteSections}}

\* a file that is missing or is not JSON
Unreadable == [unreadable |-> TRUE]

\* the parsed config files
Files ==
  {Unreadable} \cup
  {Spread(ss, b) :
     ss \in Opt("sites", FileSites),
     b \in Opt("browser", Opt("headless", BOOLEAN))}

\* a site section replaces the swipeDelay object as a whole
MergeSwipeDelay_Wholesale(cur, sec) ==
  IF Has(sec, "swipeDelay") THEN sec.swipeDelay ELSE cur.swipeDelay

\* the swipeDelay ternary of mergeConfig, for a section sec applied to cur
\* when at least one of them has a swipeDelay
MergeSwipeDelay(cur, sec) ==
  IF Has(sec, "swipeDelay") /\ Has(cur, "swipeDelay")
    THEN Spread(cur.swipeDelay, sec.swipeDelay)
    ELSE IF Has(sec, "swipeDelay") THEN sec.swipeDelay ELSE cur.swipeDelay

\* { ...cur, ...sec, swipeDelay: ... }
ApplySection(cur, sec) ==
  LET m == Spread(cur, sec)
  IN  IF Has(m, "swipeDelay")
        THEN [m EXCEPT !["swipeDelay"] = MergeSwipeDelay(cur, sec)]
        ELSE m

\* one iteration of the loop over Object.entries(fileConfig.sites)
MergedSite(defaultConfig, fileSites, siteName) ==
  LET defaultSiteConfig ==
        IF Has(defaultConfig.sites, siteName)
          THEN defaultConfig.sites[siteName] ELSE Empty
      currentSiteConfig ==
        IF Has(fileSites, "global")
          THEN ApplySection(defaultSiteConfig, fileSites["global"])
          ELSE defaultSiteConfig
  IN  ApplySection(currentSiteConfig, fileSites[siteName])

mergeConfig(defaultConfig, fileConfig) ==
  LET fileSites == IF Has(fileConfig, "sites") THEN fileConfig.sites ELSE Empty
      names == DOMAIN fileSites \ {"global"}
  IN  [sites |->
         [n \in DOMAIN defaultConfig.sites \cup names |->
            IF n \in names THEN MergedSite(defaultConfig, fileSites, n)
                           ELSE defaultConfig.sites[n]],
       browser |->
         Spread(defaultConfig.browser,
                IF Has(fileConfig, "browser") THEN fileConfig.browser
                                              ELSE Empty)]

\* the constructor of Config
NewConfig(file) ==
  IF file = Unreadable THEN DEFAULT_CONFIG
                       ELSE mergeConfig(DEFAULT_CONFIG, file)

\* the null that getSiteConfig returns
NullConfig == [null |-> TRUE]

getSiteConfig(config, siteName) ==
  IF ~Has(config.sites, siteName) THEN NullConfig
  ELSE IF ~Has(config.sites[siteName], "enabled") THEN NullConfig
  ELSE IF ~config.sites[siteName].enabled THEN NullConfig
  ELSE config.sites[siteName]

\* options.headless as commander delivers it: the option is declared with
\* the default false, so it is true with the flag and false without it
OptionsHeadless(flagGiven) == IF flagGiven THEN TRUE ELSE FALSE

\* the process of the configuration model: nothing launched, no session
OrchIdle ==
  /\ site = "tinder" /\ siteEnabled = TRUE
  /\ likeRatio = 9 /\ maxSwipesPerSession = 0
  /\ OrchInit

InitConfig ==
  /\ OrchIdle
  /\ conf \in {[pc |-> "start", file |-> f] : f \in Files}
  /\ call = CallIdle
  /\ rate = RateIdle

\* const config = new Config(options.config)
ConfLoad ==
  /\ conf.pc = "start"
  /\ conf' = Spread(conf, [pc |-> "loaded", config |-> NewConfig(conf.file)])
  /\ UNCHANGED <<orchVars, call, rate>>

\* browserConfig = config.getBrowserConfig(); options.headless is never
\* undefined, so the assignment to browserConfig.headless always runs; the
\* object is the browser object of the Config
ConfOverrideHeadless ==
  /\ conf.pc = "loaded"
  /\ \E flagGiven \in BOOLEAN :
       LET browserConfig ==
             [conf.config.browser EXCEPT
                !["headless"] = OptionsHeadless(flagGiven)]
       IN  conf' = Spread(conf,
                     [pc |-> "overridden", flag |-> flagGiven,
                      config |-> [conf.config EXCEPT !.browser = browserConfig],
                      browserConfig |-> browserConfig])
  /\ UNCHANGED <<orchVars, call, rate>>

\* siteConfig = config.getSiteConfig(options.site.toLowerCase())
ConfGetSiteConfig ==
  /\ conf.pc = "overridden"
  /\ \E siteName \in FileSiteNames :
       conf' = Spread(conf,
                 [pc |-> "siteResolved", name |-> siteName,
                  siteConfig |-> getSiteConfig(conf.config, siteName)])
  /\ UNCHANGED <<orchVars, call, rate>>

\* if (!siteConfig) process.exit(1), before a BrowserManager exists
ConfExit ==
  /\ conf.pc = "siteResolved" /\ conf.siteConfig = NullConfig
  /\ conf' = [conf EXCEPT !.pc = "exited"]
  /\ UNCHANGED <<orchVars, call, rate>>

\* new BrowserManager(browserConfig).initialize():
\* launchPersistentContext(profilePath, { headless: this.config.headless })
ConfLaunch ==
  /\ conf.pc = "siteResolved" /\ conf.siteConfig # NullConfig
  /\ conf' = Spread(conf, [pc |-> "launched",
                           launchHeadless |-> conf.browserConfig.headless])
  /\ UNCHANGED <<orchVars, call, rate>>

NextConfig ==
  \/ ConfLoad
  \/ ConfOverrideHeadless
  \/ ConfGetSiteConfig
  \/ ConfExit
  \/ ConfLaunch

SpecConfig == InitConfig /\ [][NextConfig]_vars

\* the file gives the section of site n / the global section
FileSection(file, n) ==
  IF file # Unreadable /\ Has(file, "sites") /\ Has(file.sites, n)
    THEN file.sites[n] ELSE Empty
DefaultSection(n) ==
  IF Has(DEFAULT_CONFIG.sites, n) THEN DEFAULT_CONFIG.sites[n] ELSE Empty
SwipeDelayOf(o) == IF Has(o, "swipeDelay") THEN o.swipeDelay ELSE Empty

\* the value of key k in object o, <<>> when o does not have it
Actual(k, o) == IF Has(o, k) THEN <<o[k]>> ELSE <<>>
\* the site value if present, else the global one, else the default
Chain(k, s, g, d) ==
  IF Has(s, k) THEN <<s[k]>>
  ELSE IF Has(g, k) THEN <<g[k]>>
  ELSE IF Has(d, k) THEN <<d[k]>> ELSE <<>>

\* the merged configuration of site n follows the three-level precedence
Precedence(n) ==
  LET merged == conf.config.sites[n]
      s == FileSection(conf.file, n)
      g == FileSection(conf.file, "global")
      d == DefaultSection(n)
  IN  /\ \A k \in {"enabled", "likeRatio", "maxSwipesPerSession"} :
           Actual(k, merged) = Chain(k, s, g, d)
      /\ \A f \in {"min", "max"} :
           Actual(f, SwipeDelayOf(merged)) =
             Chain(f, SwipeDelayOf(s), SwipeDelayOf(g), SwipeDelayOf(d))

\* C12: for every site with a section of its own in the config file each
\* merged setting is the site's value if the section gives it, else the
\* global value if the global section gives it, else the built-in default;
\* swipeDelay is merged field by field
C12_MergePrecedence ==
  (conf.pc \notin {"idle", "start"} /\ conf.file # Unreadable
     /\ Has(conf.file, "sites")) =>
    \A n \in DOMAIN conf.file.sites \ {"global"} :
      Has(conf.config.sites, n) /\ Precedence(n)

\* tinder after a file whose tinder section gives only swipeDelay.max and
\* whose global section gives likeRatio and swipeDelay.min: one value from
\* each of the three levels
C12_Witness ==
  /\ conf.pc = "loaded" /\ conf.file # Unreadable
  /\ FileSection(conf.file, "tinder") = [swipeDelay |-> [max |-> 500]]
  /\ FileSection(conf.file, "global") =
       [likeRatio |-> 6, swipeDelay |-> [min |-> 700]]
  /\ conf.config.sites.tinder =
       [enabled |-> TRUE, likeRatio |-> 6,
        swipeDelay |-> [min |-> 700, max |-> 500],
        maxSwipesPerSession |-> 400]

\* C13: the global section of the file applies to every site, a built-in
\* site without a section of its own included: its settings are the global
\* values where the global section gives them, the defaults elsewhere
C13_GlobalAppliesToAllSites ==
  (conf.pc \notin {"idle", "start"} /\ conf.file # Unreadable
     /\ Has(conf.file, "sites")) =>
    \A n \in DOMAIN DEFAULT_CONFIG.sites : Precedence(n)

\* value v lies within [0, 1], in tenths
InUnitRange(v) == 0 <= v /\ v <= 10

\* C14: every configuration that getSiteConfig returns has
\* swipeDelay.min <= swipeDelay.max and a likeRatio within [0, 1]
C14_ReturnedConfigValid ==
  (conf.pc \in {"siteResolved", "launched"} /\ conf.siteConfig # NullConfig) =>
    /\ Has(conf.siteConfig, "likeRatio")
    /\ InUnitRange(conf.siteConfig.likeRatio)
    /\ Has(conf.siteConfig, "swipeDelay")
    /\ DOMAIN conf.siteConfig.swipeDelay = {"min", "max"}
    /\ conf.siteConfig.swipeDelay.min <= conf.siteConfig.swipeDelay.max

\* browser.headless as the config file and the defaults give it
ConfiguredHeadless(file) ==
  IF file # Unreadable /\ Has(file, "browser") /\ Has(file.browser, "headless")
    THEN file.browser.headless
    ELSE DEFAULT_CONFIG.browser.headless

\* C15: the browser is launched headless exactly when --headless was given
\* or the configuration sets browser.headless to true
C15_HeadlessFlagOrConfig ==
  conf.pc = "launched" =>
    (conf.launchHeadless <=> (conf.flag \/ ConfiguredHeadless(conf.file)))

\* ---- the site adapters: one call of one method on one page ---------------
\* A call sees the page through the answers of its locators.  vis is the
\* set of elements that are visible (present, for the count() checks).
\* fault is what goes wrong during the call:
\*   "none"      nothing
\*   "dead"      page or context already closed: every page call rejects
\*   "diesOnAct" the page closes right after the first click or key press
\*               of the call (a shutdown in progress): every later call rejects
\*   "noBox"     locator.boundingBox() resolves to null
\*   "noViewport" page.viewportSize() is null
\* A result is the value returned ("true" / "false", "throw" for a rejected
\* promise) and acts, the clicks and key presses issued, in order.

Result(ret, acts) == [ret |-> ret, acts |-> acts]

\* the page still answers after the acts issued so far
Alive(fault, acts) ==
  fault \notin {"dead", "diesOnAct"} \/ (fault = "diesOnAct" /\ acts = <<>>)

\* the popup elements of OkCupidSite.dismissPopup
OkPopupElements ==
  {"newLikesBanner", "newLikesClose", "likeAnyway", "matchModal",
   "closeMatch", "priorityLikes", "closeButton", "dialog", "notNow",
   "maybeLater", "dialogClose"}

\* the blocking popups in the order of the code: the element whose
\* visibility opens the branch and the button that humanClick receives
OkPopupOrder ==
  <<[if |-> "likeAnyway", button |-> "likeAnyway"],
    [if |-> "matchModal", button |-> "closeMatch"],
    [if |-> "priorityLikes", button |-> "closeButton"],
    [if |-> "dialog", button |-> "notNow"],
    [if |-> "maybeLater", button |-> "maybeLater"],
    [if |-> "dialog", button |-> "dialogClose"]>>

\* humanClick(page, button) followed by page.waitForTimeout inside the try
\* of dismissPopup: "thrown" with the acts issued, or "ok"
OkClick(button, fault, acts) ==
  IF ~Alive(fault, acts) \/ fault = "noBox"
    THEN [st |-> "thrown", acts |-> acts]
  ELSE IF fault = "diesOnAct"
    THEN [st |-> "thrown", acts |-> Append(acts, button)]
  ELSE [st |-> "ok", acts |-> Append(acts, button)]

\* the branches of dismissPopup from the i-th blocking popup on
RECURSIVE OkDismissFrom(_, _, _, _)
OkDismissFrom(i, vis, fault, acts) ==
  IF i > Len(OkPopupOrder) THEN Result("false", acts)
  ELSE IF ~Alive(fault, acts) THEN Result("false", acts)
  ELSE IF OkPopupOrder[i]["if"] \in vis /\ OkPopupOrder[i].button \in vis
    THEN LET c == OkClick(OkPopupOrder[i].button, fault, acts)
         IN  Result(IF c.st = "ok" THEN "true" ELSE "false", c.acts)
  ELSE OkDismissFrom(i + 1, vis, fault, acts)

\* OkCupidSite.dismissPopup: the banner is closed without returning, then
\* the blocking popups are checked; the catch returns false
OkCupidSite_dismissPopup(vis, fault) ==
  IF ~Alive(fault, <<>>) THEN Result("false", <<>>)
  ELSE IF "newLikesBanner" \in vis /\ "newLikesClose" \in vis
    THEN LET c == OkClick("newLikesClose", fault, <<>>)
         IN  IF c.st = "ok" THEN OkDismissFrom(1, vis, fault, c.acts)
                            ELSE Result("false", c.acts)
  ELSE OkDismissFrom(1, vis, fault, <<>>)

\* the button of a swipe action
OkSwipeButton(action) == IF action = "like" THEN "likeButton" ELSE "passButton"

\* the button is clicked without asking whether it is visible
OkCupidSite_swipe_NoVisibilityCheck(vis, fault, action) ==
  LET d == OkCupidSite_dismissPopup(vis, fault)
  IN  IF ~Alive(fault, d.acts) \/ fault = "noBox" THEN Result("false", d.acts)
      ELSE Result("true", Append(d.acts, OkSwipeButton(action)))

\* OkCupidSite.swipe: dismissPopup, then the button is clicked if visible;
\* the catch returns false
OkCupidSite_swipe(vis, fault, action) ==
  LET d == OkCupidSite_dismissPopup(vis, fault)
  IN  IF ~Alive(fault, d.acts) THEN Result("false", d.acts)
      ELSE IF OkSwipeButton(action) \in vis
        THEN IF fault = "noBox" THEN Result("false", d.acts)
             ELSE Result("true", Append(d.acts, OkSwipeButton(action)))
      ELSE Result("false", d.acts)

\* the catch of hasMoreProfiles returns false
OkCupidSite_hasMoreProfiles_FailClosed(vis, fault) ==
  IF ~Alive(fault, <<>>) THEN Result("false", <<>>)
  ELSE Result(IF "outOfPeople" \in vis THEN "false" ELSE "true", <<>>)

\* OkCupidSite.hasMoreProfiles: false when the heading is visible, true
\* otherwise and in the catch
OkCupidSite_hasMoreProfiles(vis, fault) ==
  IF ~Alive(fault, <<>>) THEN Result("true", <<>>)
  ELSE Result(IF "outOfPeople" \in vis THEN "false" ELSE "true", <<>>)

\* without logged-in indicator the user counts as logged out
OkCupidSite_isLoggedIn_NoAssume(vis, fault) ==
  IF Alive(fault, <<>>) /\ "loggedInIndicator" \in vis
    THEN Result("true", <<>>)
  ELSE IF ~Alive(fault, <<>>) THEN Result("throw", <<>>)
  ELSE Result("false", <<>>)

\* OkCupidSite.isLoggedIn: waitFor on the logged-in indicator; in its catch
\* the count of the logged-out links, which runs outside any try
OkCupidSite_isLoggedIn(vis, fault) ==
  IF Alive(fault, <<>>) /\ "loggedInIndicator" \in vis
    THEN Result("true", <<>>)
  ELSE IF ~Alive(fault, <<>>) THEN Result("throw", <<>>)
  ELSE Result(IF "loggedOutLink" \in vis THEN "false" ELSE "true", <<>>)

\* how one locator.waitFor({ state: "visible", timeout: 15000 }) of
\* waitForCards ends: "visible" (resolves within the budget), "error"
\* (rejects before the budget is over, for a reason other than the timeout),
\* "timeout" (rejects when the budget is over)
WaitEnd(button, vis) ==
  IF button \in vis THEN "visible"
  ELSE IF button = "likeButton" /\ "likeWaitRejects" \in vis THEN "error"
  ELSE IF button = "passButton" /\ "passWaitRejects" \in vis THEN "error"
  ELSE "timeout"

\* Promise.race of the two waits: the promise that settles first decides.  A
\* wait that resolves settles before the timeout of the other one; an early
\* rejection and a resolution settle in either order ("rejectionFirst")
RaceResolves(vis) ==
  LET like == WaitEnd("likeButton", vis)
      pass == WaitEnd("passButton", vis)
  IN  IF like = "visible" /\ pass = "visible" THEN TRUE
      ELSE IF like # "visible" /\ pass # "visible" THEN FALSE
      ELSE IF "error" \in {like, pass} THEN "rejectionFirst" \notin vis
      ELSE TRUE

\* OkCupidSite.waitForCards: dismissPopup, then the race of the two waits;
\* the catch returns false
OkCupidSite_waitForCards(vis, fault) ==
  LET d == OkCupidSite_dismissPopup(vis, fault)
  IN  IF ~Alive(fault, d.acts) THEN Result("false", d.acts)
      ELSE Result(IF RaceResolves(vis) THEN "true" ELSE "false", d.acts)

\* OkCupidSite.navigate: page.goto is awaited outside the try; the wait for
\* the cookie banner, the click on its accept button and the pause are
\* inside it.  "gotoRejects": the page load is rejected (network error,
\* aborted by a redirect, timeout)
OkCupidSite_navigate(vis, fault) ==
  IF ~Alive(fault, <<>>) \/ "gotoRejects" \in vis THEN Result("throw", <<>>)
  ELSE IF "acceptButton" \in vis /\ fault # "noBox"
    THEN Result("void", <<"acceptButton">>)
  ELSE Result("void", <<>>)

\* TinderSite.navigate: page.goto and the 3 s pause are awaited outside the
\* try, only waitForURL ("urlWaitTimeout" when it rejects) is inside it
TinderSite_navigate(vis, fault) ==
  IF ~Alive(fault, <<>>) \/ "gotoRejects" \in vis THEN Result("throw", <<>>)
  ELSE Result("void", <<>>)

\* the selectors of TinderSite.dismissPopup, in the order of the loop
maybeLaterSelectors ==
  <<"[aria-label=\"Close\"]", "button[aria-label=\"Close\"]",
    "button:has-text(\"X\")", "button:has-text(\"Keep Swiping\")",
    "text=\"Keep Swiping\"", "button:has-text(\"Back to Tinder\")",
    "text=\"Back to Tinder\"", "button:has-text(\"Maybe Later\")",
    "text=\"Maybe Later\"", "[aria-label*=\"Maybe Later\"]",
    "button:has-text(\"Not now\")", "text=\"Not now\"",
    "button:has-text(\"Not interested\")", "text=\"Not interested\"",
    "[aria-label*=\"Not interested\"]", "button:has-text(\"No Thanks\")",
    "text=\"No Thanks\"", "button:has-text(\"Great!\")", "text=\"Great!\"">>

\* what the first element of a selector is on the page:
\*   "hidden"  not visible (or no match)
\*   "popup"   visible, with a bounding box smaller than the viewport
\*   "wide"    visible, exactly as wide as the viewport and less high
\*   "tall"    visible, higher than the viewport and less wide
\*   "noBox"   visible, boundingBox() resolves to null
\*   "stuck"   visible and small, but click() rejects without clicking
SelectorStatus == {"hidden", "popup", "wide", "tall", "noBox", "stuck"}

\* the viewport the BrowserManager launches the context with
ViewportSize == [width |-> 1280, height |-> 720]

\* button.boundingBox() of a visible element that has one
BoundingBox(status) ==
  CASE status = "wide" -> [width |-> 1280, height |-> 40]
    [] status = "tall" -> [width |-> 120, height |-> 900]
    [] OTHER           -> [width |-> 120, height |-> 40]

\* a box that just fills the viewport counts as a popup button
SmallerThanViewport_Inclusive(boundingBox, viewportSize) ==
  /\ boundingBox.width <= viewportSize.width
  /\ boundingBox.height <= viewportSize.height

\* the size test of dismissPopup
SmallerThanViewport(boundingBox, viewportSize) ==
  /\ boundingBox.width < viewportSize.width
  /\ boundingBox.height < viewportSize.height

\* the loop of TinderSite.dismissPopup from the i-th selector on; sel[i] is
\* the status of the i-th selector; fault "noViewport": page.viewportSize()
\* is null.  A rejected isVisible counts as false; an error of click() or of
\* the pause after it is caught inside the loop, which goes on
RECURSIVE TiDismissFrom(_, _, _, _)
TiDismissFrom(i, sel, fault, acts) ==
  IF i > Len(maybeLaterSelectors) THEN Result("false", acts)
  ELSE IF ~Alive(fault, acts) \/ sel[i] = "hidden"
    THEN TiDismissFrom(i + 1, sel, fault, acts)
  ELSE IF sel[i] = "noBox" \/ fault = "noViewport"
    THEN TiDismissFrom(i + 1, sel, fault, acts)
  ELSE IF ~SmallerThanViewport(BoundingBox(sel[i]), ViewportSize)
    THEN TiDismissFrom(i + 1, sel, fault, acts)
  ELSE IF sel[i] = "stuck"
    THEN TiDismissFrom(i + 1, sel, fault, acts)
  ELSE IF fault = "diesOnAct"
    THEN TiDismissFrom(i + 1, sel, fault, Append(acts, maybeLaterSelectors[i]))
  ELSE Result("true", Append(acts, maybeLaterSelectors[i]))

TinderSite_dismissPopup(sel, fault) == TiDismissFrom(1, sel, fault, <<>>)

\* the arrows exchanged
TiSwipeKey_Swapped(action) ==
  IF action = "like" THEN "ArrowLeft" ELSE "ArrowRight"

\* the key of a swipe action
TiSwipeKey(action) == IF action = "like" THEN "ArrowRight" ELSE "ArrowLeft"

\* TinderSite.swipe: dismissPopup, keyboard.press, a wait, then the count of
\* the limit messages; the catch returns false
TinderSite_swipe(sel, vis, fault, action) ==
  LET d == TinderSite_dismissPopup(sel, fault)
      pressed == Append(d.acts, TiSwipeKey(action))
  IN  IF ~Alive(fault, d.acts) THEN Result("false", d.acts)
      ELSE IF ~Alive(fault, pressed) THEN Result("false", pressed)
      ELSE Result(IF "limitMessage" \in vis THEN "false" ELSE "true", pressed)

\* hasMoreProfiles that only counts the cards
TinderSite_hasMoreProfiles_CardsOnly(sel, vis, fault) ==
  IF ~Alive(fault, <<>>) THEN Result("false", <<>>)
  ELSE IF "cards" \in vis THEN Result("true", <<>>)
  ELSE LET d == TinderSite_dismissPopup(sel, fault)
       IN  IF d.ret = "true"
             THEN Result(IF "cardsAfterDismiss" \in vis THEN "true" ELSE "false",
                         d.acts)
             ELSE Result("false", d.acts)

\* TinderSite.hasMoreProfiles: false on a limit message; the cards are
\* counted, and counted again after a dismissed popup; the catch returns false
TinderSite_hasMoreProfiles(sel, vis, fault) ==
  IF ~Alive(fault, <<>>) THEN Result("false", <<>>)
  ELSE IF "limitMessage" \in vis THEN Result("false", <<>>)
  ELSE IF "cards" \in vis THEN Result("true", <<>>)
  ELSE LET d == TinderSite_dismissPopup(sel, fault)
       IN  IF d.ret = "true"
             THEN Result(IF "cardsAfterDismiss" \in vis THEN "true" ELSE "false",
                         d.acts)
             ELSE Result("false", d.acts)

\* TinderSite.isLoggedIn; url is "app" when page.url() contains "/app",
\* "base" when it is the site URL, "other" otherwise
TinderSite_isLoggedIn(vis, url, fault) ==
  IF ~Alive(fault, <<>>) THEN Result("false", <<>>)
  ELSE IF url = "app" THEN Result("true", <<>>)
  ELSE IF "loginForm" \in vis /\ "cards" \notin vis /\ "navMenu" \notin vis
    THEN Result("false", <<>>)
  ELSE IF "cards" \in vis \/ "nopeButton" \in vis \/ "navMenu" \in vis
    THEN Result("true", <<>>)
  ELSE IF url = "base" /\ ("appAfterWait" \in vis \/ "cardsAfterWait" \in vis)
    THEN Result("true", <<>>)
  ELSE Result("false", <<>>)

\* ---- the adapter calls as a state machine --------------------------------

OkFaults == {"none", "dead", "diesOnAct", "noBox"}
TiFaults == {"none", "dead", "diesOnAct", "noViewport"}
Actions == {"like", "dislike"}

\* the popup elements visible together on an OkCupid page
OkPopupScenes == {v \in SUBSET OkPopupElements : Cardinality(v) <= MaxVisible}

\* the popup selectors of a Tinder page: the first MaxSelector may match
TiSelectorScenes ==
  {[i \in 1 .. Len(maybeLaterSelectors) |->
      IF i <= MaxSelector THEN f[i] ELSE "hidden"] :
     f \in [1 .. MaxSelector -> SelectorStatus]}
NoSelectors == [i \in 1 .. Len(maybeLaterSelectors) |-> "hidden"]

\* the record of a call, made on a page nothing was called on before: the
\* adapter, the method, its argument, the page it ran on and its result
Called(siteName, method, action, vis, sel, url, fault, res) ==
  /\ call' = [method |-> method, site |-> siteName, action |-> action,
              vis |-> vis, sel |-> sel, url |-> url, fault |-> fault,
              ret |-> res.ret, acts |-> res.acts]
  /\ UNCHANGED <<orchVars, conf, rate>>

InitAdapter ==
  /\ OrchIdle
  /\ conf = ConfIdle
  /\ call = CallIdle
  /\ rate = RateIdle

OkDismissPopup ==
  /\ call = CallIdle
  /\ \E vis \in OkPopupScenes, fault \in OkFaults :
       Called("okcupid", "dismissPopup", "none", vis, NoSelectors, "none", fault,
              OkCupidSite_dismissPopup(vis, fault))

OkSwipe ==
  /\ call = CallIdle
  /\ \E pop \in OkPopupScenes, btn \in SUBSET {"likeButton", "passButton"},
        fault \in OkFaults, action \in Actions :
       Called("okcupid", "swipe", action, pop \cup btn, NoSelectors, "none", fault,
              OkCupidSite_swipe(pop \cup btn, fault, action))

OkNavigate ==
  /\ call = CallIdle
  /\ \E vis \in SUBSET {"gotoRejects", "acceptButton"}, fault \in OkFaults :
       Called("okcupid", "navigate", "none", vis, NoSelectors, "none", fault,
              OkCupidSite_navigate(vis, fault))

TiNavigate ==
  /\ call = CallIdle
  /\ \E vis \in SUBSET {"gotoRejects", "urlWaitTimeout"}, fault \in TiFaults :
       Called("tinder", "navigate", "none", vis, NoSelectors, "none", fault,
              TinderSite_navigate(vis, fault))

\* the ends of the two waits of waitForCards, a button never both visible
\* and rejected early
OkWaitScenes ==
  {w \in SUBSET {"likeButton", "passButton", "likeWaitRejects",
                 "passWaitRejects", "rejectionFirst"} :
     /\ ~({"likeButton", "likeWaitRejects"} \subseteq w)
     /\ ~({"passButton", "passWaitRejects"} \subseteq w)}

OkWaitForCards ==
  /\ call = CallIdle
  /\ \E pop \in OkPopupScenes, w \in OkWaitScenes, fault \in OkFaults :
       Called("okcupid", "waitForCards", "none", pop \cup w, NoSelectors,
              "none", fault, OkCupidSite_waitForCards(pop \cup w, fault))

OkHasMoreProfiles ==
  /\ call = CallIdle
  /\ \E vis \in SUBSET {"outOfPeople", "likeButton"}, fault \in OkFaults :
       Called("okcupid", "hasMoreProfiles", "none", vis, NoSelectors, "none",
              fault, OkCupidSite_hasMoreProfiles(vis, fault))

OkIsLoggedIn ==
  /\ call = CallIdle
  /\ \E vis \in SUBSET {"loggedInIndicator", "loggedOutLink"},
        fault \in OkFaults :
       Called("okcupid", "isLoggedIn", "none", vis, NoSelectors, "none", fault,
              OkCupidSite_isLoggedIn(vis, fault))

TiDismissPopup ==
  /\ call = CallIdle
  /\ \E sel \in TiSelectorScenes, fault \in TiFaults :
       Called("tinder", "dismissPopup", "none", {}, sel, "none", fault,
              TinderSite_dismissPopup(sel, fault))

TiSwipe ==
  /\ call = CallIdle
  /\ \E sel \in TiSelectorScenes,
        vis \in SUBSET {"limitMessage", "likeButton", "nopeButton"},
        fault \in TiFaults, action \in Actions :
       Called("tinder", "swipe", action, vis, sel, "none", fault,
              TinderSite_swipe(sel, vis, fault, action))

TiHasMoreProfiles ==
  /\ call = CallIdle
  /\ \E sel \in TiSelectorScenes,
        vis \in SUBSET {"limitMessage", "cards", "cardsAfterDismiss"},
        fault \in TiFaults :
       Called("tinder", "hasMoreProfiles", "none", vis, sel, "none", fault,
              TinderSite_hasMoreProfiles(sel, vis, fault))

TiIsLoggedIn ==
  /\ call = CallIdle
  /\ \E vis \in SUBSET {"loginForm", "cards", "nopeButton", "navMenu",
                        "appAfterWait", "cardsAfterWait"},
        url \in {"app", "base", "other"}, fault \in TiFaults :
       Called("tinder", "isLoggedIn", "none", vis, NoSelectors, url, fault,
              TinderSite_isLoggedIn(vis, url, fault))

\* the page after a call that began under the given fault
FaultAfter(fault, acts) ==
  IF fault = "diesOnAct" /\ acts # <<>> THEN "dead" ELSE fault

\* the orchestrator's re-check after a Tinder swipe that returned false:
\* hasMoreProfiles on the page as it is then (visAfter), and the break when
\* it returns false
TiRecheckAfterSwipe ==
  /\ call.method = "swipe" /\ call.site = "tinder" /\ call.ret = "false"
  /\ \E visAfter \in SUBSET {"limitMessage", "cards", "cardsAfterDismiss"} :
       LET res == TinderSite_hasMoreProfiles(call.sel, visAfter,
                                             FaultAfter(call.fault, call.acts))
       IN  call' = Spread(call, [method           |-> "recheck",
                                 visAfter         |-> visAfter,
                                 stillHasMore |-> res.ret,
                                 recheckActs      |-> res.acts,
                                 loopEnds         |-> res.ret # "true"])
  /\ UNCHANGED <<orchVars, conf, rate>>

NextAdapter ==
  \/ OkDismissPopup
  \/ OkSwipe
  \/ OkNavigate
  \/ TiNavigate
  \/ OkWaitForCards
  \/ OkHasMoreProfiles
  \/ OkIsLoggedIn
  \/ TiDismissPopup
  \/ TiSwipe
  \/ TiHasMoreProfiles
  \/ TiRecheckAfterSwipe
  \/ TiIsLoggedIn

SpecAdapter == InitAdapter /\ [][NextAdapter]_vars

\* the set of the elements of a sequence
Range(seq) == {seq[i] : i \in 1 .. Len(seq)}
IsCall(siteName, method) ==
  call.method = method /\ call.site = siteName

\* the page of the call was open when the call began
CallAlive == call.fault # "dead"

\* C16 as stated: for every adapter hasMoreProfiles returns false only on a
\* positive "no more profiles / out of likes" match and returns true when its
\* check throws
C16_FailOpenEveryAdapter ==
  call.method = "hasMoreProfiles" =>
    /\ call.fault = "dead" => call.ret = "true"
    /\ call.ret = "false" =>
         IF call.site = "okcupid" THEN "outOfPeople" \in call.vis
                                  ELSE "limitMessage" \in call.vis

\* C16, amended: OkCupid's hasMoreProfiles returns false only when the
\* out-of-people heading is visible and returns true when its check throws;
\* Tinder's returns false when a check throws and when no card is counted,
\* and true only without limit message and with a card counted
C16_FailOpenOkCupidOnly ==
  /\ IsCall("okcupid", "hasMoreProfiles") =>
       /\ call.fault = "dead" => call.ret = "true"
       /\ call.ret = "false" => ("outOfPeople" \in call.vis /\ CallAlive)
       /\ call.ret \in {"true", "false"}
  /\ IsCall("tinder", "hasMoreProfiles") =>
       /\ call.fault = "dead" => call.ret = "false"
       /\ (call.vis \cap {"cards", "cardsAfterDismiss"} = {}) =>
            call.ret = "false"
       /\ call.ret = "true" =>
            /\ "limitMessage" \notin call.vis
            /\ call.vis \cap {"cards", "cardsAfterDismiss"} # {}
       /\ call.ret \in {"true", "false"}

\* OkCupid's check threw on a closed page and the answer was true
C16_Witness ==
  /\ IsCall("okcupid", "hasMoreProfiles")
  /\ call.fault = "dead" /\ call.ret = "true"

\* C17: for every adapter isLoggedIn never throws; an internal error makes it
\* return false
C17_IsLoggedInNeverThrows ==
  call.method = "isLoggedIn" =>
    /\ call.ret # "throw"
    /\ call.fault = "dead" => call.ret = "false"

\* C18 as stated: for every adapter isLoggedIn returns true on the site's
\* domain without login form and without logged-out indicator, even without
\* a positive indicator
C18_AssumeLoggedInEveryAdapter ==
  /\ IsCall("okcupid", "isLoggedIn") =>
       ((CallAlive /\ "loggedOutLink" \notin call.vis) => call.ret = "true")
  /\ IsCall("tinder", "isLoggedIn") =>
       ((CallAlive /\ call.url \in {"app", "base"}
           /\ "loginForm" \notin call.vis) => call.ret = "true")

\* the positive logged-in indicators of Tinder's isLoggedIn
TiPositive ==
  {"cards", "nopeButton", "navMenu", "appAfterWait", "cardsAfterWait"}

\* C18, amended: OkCupid's isLoggedIn returns true whenever no logged-out
\* link is found, even without logged-in indicator; Tinder's returns true
\* only on an /app URL or with a positive indicator and returns false
\* without one, login form or not
C18_AssumeLoggedInOkCupidOnly ==
  /\ IsCall("okcupid", "isLoggedIn") =>
       ((CallAlive /\ "loggedOutLink" \notin call.vis) => call.ret = "true")
  /\ IsCall("tinder", "isLoggedIn") =>
       /\ (call.url # "app" /\ call.vis \cap TiPositive = {}) =>
            call.ret = "false"
       /\ call.ret = "true" =>
            (call.url = "app" \/ call.vis \cap TiPositive # {})

\* OkCupid without logged-in indicator and without logged-out link
C18_Witness ==
  /\ IsCall("okcupid", "isLoggedIn")
  /\ CallAlive /\ call.vis = {} /\ call.ret = "true"

\* C19: for every adapter one dismissPopup call on a working page clicks at
\* most one element and returns false exactly when it clicked nothing
C19_AtMostOnePopup ==
  (call.method = "dismissPopup" /\ call.fault = "none") =>
    /\ Len(call.acts) <= 1
    /\ call.ret = "false" <=> call.acts = <<>>

\* the control of a swipe action on the page of the call
SwipeControl ==
  IF call.site = "okcupid" THEN OkSwipeButton(call.action)
  ELSE IF call.action = "like" THEN "likeButton" ELSE "nopeButton"
\* the click or key press that performs the swipe action of the call
SwipeAct ==
  IF call.site = "okcupid" THEN OkSwipeButton(call.action)
                           ELSE TiSwipeKey(call.action)

\* C20 as stated: for every adapter swipe returns true only if the control
\* was available and the action was issued, returns false without click or
\* key press when the control is not visible, and never throws
C20_SwipeEveryAdapter ==
  call.method = "swipe" =>
    /\ call.ret # "throw"
    /\ call.ret = "true" =>
         (SwipeControl \in call.vis /\ SwipeAct \in Range(call.acts))
    /\ SwipeControl \notin call.vis =>
         (call.ret = "false" /\ SwipeAct \notin Range(call.acts))

\* C20, amended: no swipe throws; OkCupid's returns true only after the
\* visible button was clicked and leaves the button alone when it is not
\* visible; Tinder's presses the arrow key whenever the page answers, Like
\* or Nope button visible or not, and returns true only if the key was
\* pressed and no limit message is found afterwards
C20_SwipeContracts ==
  /\ call.method = "swipe" => call.ret \in {"true", "false"}
  /\ IsCall("okcupid", "swipe") =>
       /\ call.ret = "true" =>
            /\ SwipeControl \in call.vis
            /\ call.acts # <<>> /\ call.acts[Len(call.acts)] = SwipeAct
       /\ SwipeControl \notin call.vis =>
            (call.ret = "false"
               /\ Range(call.acts) \cap {"likeButton", "passButton"} = {})
  /\ IsCall("tinder", "swipe") =>
       /\ call.fault \in {"none", "noViewport"} =>
            SwipeAct \in Range(call.acts)
       /\ call.ret = "true" =>
            (SwipeAct \in Range(call.acts) /\ "limitMessage" \notin call.vis)
       /\ "limitMessage" \in call.vis => call.ret = "false"

\* Tinder's swipe pressed the key and returned true with no Like button
C20_Witness ==
  /\ IsCall("tinder", "swipe") /\ call.action = "like"
  /\ "likeButton" \notin call.vis
  /\ call.ret = "true" /\ call.acts = <<"ArrowRight">>

\* C21: OkCupid's waitForCards never throws, returns true whenever the Like
\* or the Pass button becomes visible within the budget, however the other
\* wait ends, and returns false only if neither does
C21_EitherButtonSuffices ==
  (IsCall("okcupid", "waitForCards") /\ call.fault = "none") =>
    /\ call.ret \in {"true", "false"}
    /\ call.ret = "true" <=> call.vis \cap {"likeButton", "passButton"} # {}

\* C22: for every adapter navigate returns normally, whatever happens to the
\* page load, the URL wait and the cookie banner
C22_NavigateNeverThrows ==
  (call.method = "navigate" /\ CallAlive) => call.ret = "void"

\* ---- the RateLimiter ------------------------------------------------------
\* Math.random() is a draw r of Draws, standing for r / 10 in [0, 1);
\* likeRatio is in tenths as well

\* the result is one above what the code computes
randomInt_OffByOne(r, min, max) == (r * (max - min + 1)) \div 10 + min + 1

\* Math.floor(Math.random() * (max - min + 1)) + min
randomInt(r, min, max) == (r * (max - min + 1)) \div 10 + min

\* new RateLimiter(config, logger) with a likeRatio in [0, 1] and integer
\* swipeDelay bounds min <= max
InitRate ==
  /\ OrchIdle
  /\ conf = ConfIdle
  /\ call = CallIdle
  /\ rate \in {[op |-> "new", likeRatio |-> l, min |-> a, max |-> b, r |-> 0,
                action |-> "none", ms |-> 0, calls |-> 0] :
                 l \in 0 .. 10, a \in 0 .. MaxDelay, b \in 0 .. MaxDelay}
  /\ rate.min <= rate.max

\* decideSwipe()
RateDecideSwipe ==
  /\ rate.op # "none" /\ rate.calls < MaxCalls
  /\ \E r \in Draws :
       rate' = [rate EXCEPT !.op = "decideSwipe", !.r = r,
                            !.action = decideSwipe(r, rate.likeRatio),
                            !.calls = @ + 1]
  /\ UNCHANGED <<orchVars, conf, call>>

\* delay(): sleep(randomInt(swipeDelay.min, swipeDelay.max))
RateDelay ==
  /\ rate.op # "none" /\ rate.calls < MaxCalls
  /\ \E r \in Draws :
       rate' = [rate EXCEPT !.op = "delay", !.r = r,
                            !.ms = randomInt(r, rate.min, rate.max),
                            !.calls = @ + 1]
  /\ UNCHANGED <<orchVars, conf, call>>

\* readingDelay(): with Math.random() < 0.1 a sleep of randomInt(5000, 10000)
RateReadingDelay ==
  /\ rate.op # "none" /\ rate.calls < MaxCalls
  /\ \E r \in Draws, r2 \in Draws :
       rate' = [rate EXCEPT !.op = "readingDelay", !.r = r,
                            !.ms = IF r < 1 THEN randomInt(r2, 5000, 10000)
                                            ELSE 0,
                            !.calls = @ + 1]
  /\ UNCHANGED <<orchVars, conf, call>>

NextRate ==
  \/ RateDecideSwipe
  \/ RateDelay
  \/ RateReadingDelay

SpecRate == InitRate /\ [][NextRate]_vars

\* C23: decideSwipe returns "like" exactly when the draw is below likeRatio,
\* whatever was called before; likeRatio 1 always gives "like", likeRatio 0
\* always "dislike"; no call changes the configuration
C23_DecideSwipeThreshold ==
  /\ [](rate.op = "decideSwipe" =>
          /\ rate.action = "like" <=> rate.r < rate.likeRatio
          /\ rate.action \in {"like", "dislike"}
          /\ rate.likeRatio = 10 => rate.action = "like"
          /\ rate.likeRatio = 0 => rate.action = "dislike")
  /\ [][rate.op # "none" =>
          (rate'.likeRatio = rate.likeRatio /\ rate'.min = rate.min
             /\ rate'.max = rate.max)]_vars

\* a second decideSwipe with a draw just below a likeRatio of 0.5 after
\* another call
C23_Witness ==
  /\ rate.op = "decideSwipe" /\ rate.calls = 2
  /\ rate.likeRatio = 5 /\ rate.r = 4 /\ rate.action = "like"

\* C24: delay() sleeps for min <= d <= max, whatever the draw
C24_DelayWithinRange ==
  rate.op = "delay" => (rate.min <= rate.ms /\ rate.ms <= rate.max)

\* the largest draw gave the upper end of a range of more than one value
C24_Witness ==
  /\ rate.op = "delay" /\ rate.r = 9
  /\ rate.min < rate.max /\ rate.ms = rate.max

\* ---- the session protocol of run() ----------------------------------------

\* the calls that may follow the call run() is waiting for, pageClose being
\* the finally block
ProtocolNext(pc) ==
  CASE pc = "idle"         -> {"newPage"}
    [] pc = "newPage"      -> {"navigate", "done"}
    [] pc = "navigate"     -> {"isLoggedIn", "pageClose"}
    [] pc = "isLoggedIn"   -> {"stabilize", "loginWait", "pageClose"}
    [] pc = "loginWait"    -> {"loginPoll", "pageClose"}
    [] pc = "loginPoll"    -> {"stabilize", "loginWait", "pageClose"}
    [] pc = "stabilize"    -> {"waitForCards", "pageClose"}
    [] pc = "waitForCards" -> {"dismissPopup", "hasMore", "pageClose"}
    [] pc = "dismissPopup" -> {"hasMore"}
    [] pc = "hasMore"      -> {"swipe", "pageClose"}
    [] pc = "swipe"        -> {"delay", "recheck"}
    [] pc = "recheck"      -> {"delay", "pageClose"}
    [] pc = "delay"        -> {"readingDelay"}
    [] pc = "readingDelay" -> {"dismissPopup", "hasMore", "pageClose"}
    [] pc = "pageClose"    -> {"saveState"}
    [] pc = "saveState"    -> {"done"}
    [] OTHER               -> {}

\* the calls of the main loop
LoopPcs ==
  {"dismissPopup", "hasMore", "swipe", "recheck", "delay", "readingDelay"}

\* C26: the calls of run() follow the session protocol: navigate once and
\* first, isLoggedIn until it first returns true and never afterwards,
\* waitForCards once, the main loop only after both returned true, every
\* swipe right after a hasMoreProfiles call that returned true and a fresh
\* decision, and delay then readingDelay once each between two swipe calls,
\* also after a failed swipe
C26_SessionProtocol ==
  /\ [][runPc' # runPc => runPc' \in ProtocolNext(runPc)]_vars
  /\ [][(runPc \in {"isLoggedIn", "loginPoll"} /\ runPc' = "stabilize") =>
          loggedIn']_vars
  /\ [][(runPc = "waitForCards" /\ runPc' \in LoopPcs) =>
          (loggedIn /\ cardsAvailable' = "true")]_vars
  /\ [](runPc \in LoopPcs => (loggedIn /\ cardsAvailable = "true"))
  /\ [][(runPc = "hasMore" /\ runPc' = "swipe") =>
          (loopExit' = "none" /\ decision' \in {"like", "dislike"})]_vars
  /\ [][(runPc = "swipe" /\ runPc' # "swipe") =>
          swipeCalls' = swipeCalls + 1]_vars
  /\ [][swipeCalls' # swipeCalls => runPc = "swipe"]_vars

\* the second swipe call of a session is pending after a failed first one
C26_Witness ==
  /\ runPc = "swipe" /\ swipeCalls = 1
  /\ stats.errors = 1 /\ stats.totalSwipes = 0 /\ hasMoreCalls = 3

\* C27: once the main loop was entered no adapter call makes run() throw:
\* no error is pending in the loop and run() ends by returning the stats
C27_LoopNeverThrows ==
  /\ [](runPc \in LoopPcs => runError = "none")
  /\ []((cardsAvailable = "true" /\ runPc \in {"pageClose", "saveState"}) =>
          runError = "none")
  /\ []((cardsAvailable = "true" /\ runPc = "done") =>
          (runResult = "returned" /\ runError = "none"))
  /\ [][(runPc \in LoopPcs /\ runPc' \notin LoopPcs) =>
          (runPc' = "pageClose" /\ loopExit' # "none")]_vars

\* run() returned after a swipe was called on a page that a shutdown had
\* closed
C27_Witness ==
  /\ runPc = "done" /\ runResult = "returned"
  /\ sdClosedInRun /\ swipeCalls > 0 /\ stats.errors > 0
  /\ loopExit = "failedNoMore"

\* the selectors that the call had to click: visible, with a bounding box
\* and a viewport, the box smaller than the viewport in width and in height
Clickable ==
  {i \in 1 .. Len(maybeLaterSelectors) :
     /\ call.sel[i] \in {"popup", "stuck"}
     /\ call.fault \notin {"dead", "noViewport"}}
\* the position of a selector in the list
SelectorIndex(selector) ==
  CHOOSE i \in 1 .. Len(maybeLaterSelectors) : maybeLaterSelectors[i] = selector

\* C28 as stated: Tinder's dismissPopup never throws, clicks at most one
\* element, only a visible one with a box strictly smaller than the
\* available viewport, and returns true exactly when it clicked
C28_ClickOnlySmallPopups ==
  IsCall("tinder", "dismissPopup") =>
    /\ call.ret \in {"true", "false"}
    /\ Len(call.acts) <= 1
    /\ \A k \in 1 .. Len(call.acts) : SelectorIndex(call.acts[k]) \in Clickable
    /\ call.ret = "true" <=> call.acts # <<>>

\* C28, amended: as stated, but true is returned exactly when it clicked and
\* the pause after the click completed; a click on a page that closes during
\* that pause is followed by false.  The click goes to the first selector
\* whose click succeeds
C28_ClickOnlySmallPopupsPause ==
  IsCall("tinder", "dismissPopup") =>
    /\ call.ret \in {"true", "false"}
    /\ Len(call.acts) <= 1
    /\ \A k \in 1 .. Len(call.acts) :
         /\ SelectorIndex(call.acts[k]) \in Clickable
         /\ call.sel[SelectorIndex(call.acts[k])] = "popup"
         /\ \A j \in 1 .. SelectorIndex(call.acts[k]) - 1 : call.sel[j] # "popup"
    /\ call.ret = "true" <=> (call.acts # <<>> /\ call.fault # "diesOnAct")
    /\ (\E i \in Clickable : call.sel[i] = "popup") => call.acts # <<>>

\* a viewport-wide element and an element without box were passed over and
\* the popup button after them was clicked
C28_Witness ==
  /\ IsCall("tinder", "dismissPopup") /\ call.fault = "none"
  /\ call.sel[1] = "wide" /\ call.sel[2] = "noBox" /\ call.sel[3] = "popup"
  /\ call.ret = "true" /\ call.acts = <<maybeLaterSelectors[3]>>

\* the keys of the swipe actions
SwipeKeys == {TiSwipeKey(a) : a \in Actions}

LikeActs == {"likeButton", "ArrowRight"}
DislikeActs == {"passButton", "ArrowLeft"}
\* the number of the acts of the call that are in the set
Issued(acts) == Cardinality({k \in 1 .. Len(call.acts) : call.acts[k] \in acts})
\* what the orchestrator adds to likes and to dislikes after the call
LikesAdded == IF call.ret = "true" /\ call.action = "like" THEN 1 ELSE 0
DislikesAdded == IF call.ret = "true" /\ call.action = "dislike" THEN 1 ELSE 0

\* C30 as stated: for every adapter the like or dislike action is issued to
\* the page if and only if the swipe call returns true, so what a call adds
\* to likes and dislikes is the number of like and dislike actions it issued
C30_StatsCountActions ==
  call.method = "swipe" =>
    /\ call.ret \in {"true", "false"}
    /\ Issued(LikeActs) = LikesAdded
    /\ Issued(DislikeActs) = DislikesAdded

\* C30, amended: a swipe call that returns true has issued the action of the
\* decision once, and no call issues the opposite action or two actions, so
\* likes and dislikes never exceed the actions issued; OkCupid issues the
\* click exactly when it returns true; Tinder also returns false after the
\* key press, when a limit message is then shown or the page then fails
C30_StatsAtMostActions ==
  call.method = "swipe" =>
    /\ call.ret \in {"true", "false"}
    /\ LikesAdded <= Issued(LikeActs) /\ DislikesAdded <= Issued(DislikeActs)
    /\ Issued(LikeActs) + Issued(DislikeActs) <= 1
    /\ call.action = "like" => Issued(DislikeActs) = 0
    /\ call.action = "dislike" => Issued(LikeActs) = 0
    /\ call.site = "okcupid" =>
         /\ Issued(LikeActs) = LikesAdded
         /\ Issued(DislikeActs) = DislikesAdded
    /\ (/\ call.site = "tinder"
        /\ Issued(LikeActs) + Issued(DislikeActs) > LikesAdded + DislikesAdded) =>
         \/ "limitMessage" \in call.vis
         \/ call.fault = "diesOnAct"

\* a like was pressed on Tinder after a dismissed popup, a limit message was
\* then shown, and the call returned false
C30_Witness ==
  /\ IsCall("tinder", "swipe") /\ call.fault = "none"
  /\ call.action = "like" /\ "limitMessage" \in call.vis
  /\ Len(call.acts) = 2 /\ call.acts[2] = "ArrowRight"
  /\ call.ret = "false"

====
